---- MODULE Spec2Model ----
(***************************************************************************)
(* Incremental Reddit ingestion (src/lambda_reddit_ingest/main.py): the    *)
(* retry wrapper, the Bedrock rate limiter, the filter cascade, the        *)
(* watermark kept in SSM and the batch written to S3, as a state machine.  *)
(*                                                                         *)
(* Time is counted in ticks of half a second.  Strings are sequences of    *)
(* one-character strings, so that lower(), upper(), len(), slicing and     *)
(* the substring test are computed and not assumed.                        *)
(***************************************************************************)
EXTENDS Integers, Sequences, FiniteSets, TLC

\* ------------------------------------------------------------------ values

\* A value that may be None: None is the empty sequence, as are an empty
\* bucket and an empty parameter store.
None == <<>>
Some(v) == <<v>>

Min(a, b) == IF a <= b THEN a ELSE b
Max(a, b) == IF a >= b THEN a ELSE b

RECURSIVE Pow2(_)
Pow2(n) == IF n = 0 THEN 1 ELSE 2 * Pow2(n - 1)

\* ----------------------------------------------------------------- strings

LowerChar(c) ==
    CASE c = "A" -> "a" [] c = "D" -> "d" [] c = "E" -> "e" [] c = "I" -> "i"
      [] c = "L" -> "l" [] c = "N" -> "n" [] c = "P" -> "p" [] c = "R" -> "r"
      [] c = "S" -> "s" [] c = "T" -> "t" [] c = "V" -> "v" [] OTHER -> c

UpperChar(c) ==
    CASE c = "a" -> "A" [] c = "d" -> "D" [] c = "e" -> "E" [] c = "i" -> "I"
      [] c = "l" -> "L" [] c = "n" -> "N" [] c = "p" -> "P" [] c = "r" -> "R"
      [] c = "s" -> "S" [] c = "t" -> "T" [] c = "v" -> "V" [] OTHER -> c

\* str.lower(), str.upper()
Lower(s) == [i \in 1..Len(s) |-> LowerChar(s[i])]
Upper(s) == [i \in 1..Len(s) |-> UpperChar(s[i])]

\* `sub in s` on Python strings; the empty string is in every string.
Contains(s, sub) ==
    \E i \in 0..(Len(s) - Len(sub)) : SubSeq(s, i + 1, i + Len(sub)) = sub

\* s[:n]
Take(s, n) == SubSeq(s, 1, Min(n, Len(s)))

\* A filler text of n characters.
Filler(n) == [i \in 1..n |-> "x"]

\* --------------------------------------------------------- configuration

\* Literals of the source, in characters.
Str_AAPL == <<"A", "A", "P", "L">>
Str_TSLA == <<"T", "S", "L", "A">>
Str_AD == <<"A", "D">>
Str_RELEVANT == <<"R", "E", "L", "E", "V", "A", "N", "T">>
Str_IRRELEVANT == <<"I", "R">> \o Str_RELEVANT

\* SUBREDDITS, KEYWORDS and IGNORE_KEYWORDS are comma-separated environment
\* values; "".split(',') is [''], so the ignore list may hold an empty term.
SSM_PARAMETER_NAME == "/reddit/last_post_timestamp"
SUBREDDITS == <<"stocks", "investing">>
KEYWORDS == <<Str_AAPL, Str_TSLA>>
IGNORE_KEYWORDS == << <<>>, Str_AD >>

\* The limits are read from the environment (lines 23-27); this is a
\* deployment with small ones.
POST_LIMIT == 2
MIN_POST_SCORE == 10
MIN_POST_LENGTH == 4
MIN_COMMENT_SCORE == 5
MIN_COMMENT_LENGTH == 3

\* 1.0 second, in ticks of half a second.
BEDROCK_CALL_INTERVAL == 2

\* is_post_relevant_by_ai refuses a post whose title and text together are
\* shorter than this.
AI_MIN_TEXT_LENGTH == 50

\* sanitize_post_data's caps.
TITLE_CAP == 500
SELFTEXT_CAP == 10000
BODY_CAP == 5000

\* ------------------------------------------------------------ the content

\* The comments Reddit holds, by id.
Comments ==
    [c1 |-> [id |-> "c1", body |-> <<"g", "o", "o", "d">>, score |-> 5, created_utc |-> 3],
     c2 |-> [id |-> "c2", body |-> <<"f", "i", "n", "e">>, score |-> 4, created_utc |-> 3],
     c3 |-> [id |-> "c3", body |-> <<"o", "k">>, score |-> 9, created_utc |-> 3],
     c4 |-> [id |-> "c4", body |-> <<"y", "e", "s">>, score |-> 7, created_utc |-> 3]]

\* The posts Reddit holds, by id: one post for every way through the cascade.
Posts ==
    [s1 |-> [id |-> "s1", title |-> <<"m", "e", "m", "e">>, selftext |-> Filler(50),
             score |-> 50, created_utc |-> 3, comments |-> <<>>],
     s2 |-> [id |-> "s2", title |-> Str_AAPL, selftext |-> Filler(50),
             score |-> 12, created_utc |-> 2, comments |-> <<"c1", "c2", "c3", "c4">>],
     s3 |-> [id |-> "s3", title |-> <<"x">>, selftext |-> <<"t", "s", "l", "a">>,
             score |-> 10, created_utc |-> 1, comments |-> <<>>],
     s4 |-> [id |-> "s4", title |-> Str_TSLA \o <<" ">> \o Str_AD, selftext |-> Filler(50),
             score |-> 30, created_utc |-> 1, comments |-> <<>>],
     i1 |-> [id |-> "i1", title |-> Str_TSLA, selftext |-> Filler(50),
             score |-> 10, created_utc |-> 3, comments |-> <<>>],
     i2 |-> [id |-> "i2", title |-> Str_AAPL, selftext |-> Filler(50),
             score |-> 9, created_utc |-> 2, comments |-> <<>>],
     i3 |-> [id |-> "i3", title |-> Str_AAPL, selftext |-> <<"a", "b", "c">>,
             score |-> 40, created_utc |-> 1, comments |-> <<>>]]

PostIds == DOMAIN Posts

\* The posts of each community, newest first, as subreddit.new lists them.
Pool ==
    [stocks |-> <<"s1", "s2", "s3", "s4">>, investing |-> <<"i1", "i2", "i3">>]

\* The subsequences of a sequence, order kept.
RECURSIVE SubSeqs(_)
SubSeqs(s) ==
    IF s = <<>> THEN {<<>>}
    ELSE LET rest == SubSeqs(Tail(s))
         IN  rest \cup {<<Head(s)>> \o r : r \in rest}

\* The stretches of consecutive posts of a sequence, the empty one included,
\* that hold at most one post more than a listing returns.
Windows(seq) ==
    {SubSeq(seq, lo, hi) : lo \in 1..(Len(seq) + 1), hi \in 0..Len(seq)}
        \cap {w \in SubSeqs(seq) : Len(w) <= POST_LIMIT + 1}

\* A source snapshot: what each community's listing holds.
Snapshots == {f \in [DOMAIN Pool -> UNION {Windows(Pool[s]) : s \in DOMAIN Pool}] :
                 \A s \in DOMAIN Pool : f[s] \in Windows(Pool[s])}

\* ------------------------------------------------ retry_with_backoff (34-51)

\* Line 45 without the cap of max_delay.
RetryDelayUncapped(base_delay, max_delay, attempt) == base_delay * Pow2(attempt)

\* The delay slept after failed attempt number `attempt` (line 45).
RetryDelay(base_delay, max_delay, attempt) ==
    Min(base_delay * Pow2(attempt), max_delay)

\* Whether a failed attempt is followed by another one (line 44).
RetryAgain(max_retries, attempt) == attempt < max_retries

\* The decorator of line 99 with the default max_retries.
RETRY_SSM_DEFAULT == [max_retries |-> 3, base_delay |-> 1, max_delay |-> 120]

\* The decorators' arguments (lines 99, 108, 117), delays in ticks.
RETRY_SSM == [max_retries |-> 2, base_delay |-> 1, max_delay |-> 120]
RETRY_AI == [max_retries |-> 3, base_delay |-> 4, max_delay |-> 60]

\* ------------------------------------------------------------ the watermark

\* str(timestamp) (line 112) and float(value) (line 103): the text of a
\* float, and the float a text is read as.  Python writes a float with the
\* shortest digits that read back as the same float.
StrOf(x) == <<"str", x>>
FloatOf(text) == text[2]

\* get_last_timestamp (99-106) on a parameter store: None when the parameter
\* is not found.
Watermark(store) ==
    IF SSM_PARAMETER_NAME \in DOMAIN store
    THEN Some(FloatOf(store[SSM_PARAMETER_NAME].Value))
    ELSE None

\* ------------------------------------------------------ the rate limiter

\* Lines 128-132 without the sleep.
SleepTimeNone(current_time, last_call) == 0

\* How long is_post_relevant_by_ai sleeps before a call (lines 128-132).
SleepTime(current_time, last_call) ==
    IF current_time - last_call < BEDROCK_CALL_INTERVAL
    THEN BEDROCK_CALL_INTERVAL - (current_time - last_call)
    ELSE 0

\* ------------------------------------------------------ the filter stages

\* Python's truth value of last_timestamp: None and 0 are false.
Truthy(v) == v # None /\ v # Some(0)

\* Line 275 without the comparison: no post is old.
IsOldNever(last, post) == FALSE

\* Line 275 letting through the posts one second older than the watermark.
IsOldLenient(last, post) == Truthy(last) /\ post.created_utc + 1 < last[1]

\* Stage 1 (line 275).
IsOld(last, post) == Truthy(last) /\ post.created_utc < last[1]

\* Line 284.
PostText(post) == Lower(post.title \o <<" ">> \o post.selftext)

\* Stage 2 (line 287).
HasKeywords(post) ==
    \E k \in 1..Len(KEYWORDS) : Contains(PostText(post), Lower(KEYWORDS[k]))

\* Stage 3 (line 294).
HasIgnoreKeywords(post) ==
    \E k \in 1..Len(IGNORE_KEYWORDS) :
        /\ IGNORE_KEYWORDS[k] # <<>>
        /\ Contains(PostText(post), Lower(IGNORE_KEYWORDS[k]))

\* Stage 4 (line 300) and stage 5 (line 306).
MeetsScore(post) == post.score >= MIN_POST_SCORE
MeetsLength(post) == Len(post.selftext) >= MIN_POST_LENGTH

\* The stages without the score test of line 300.
RejectedAtNoScore(last, post) ==
    CASE IsOld(last, post) -> "timestamp"
      [] ~HasKeywords(post) -> "keywords"
      [] HasIgnoreKeywords(post) -> "ignore"
      [] ~MeetsLength(post) -> "length"
      [] OTHER -> "none"

\* The stage that rejects a post before the relevance check, or "none".
RejectedAt(last, post) ==
    CASE IsOld(last, post) -> "timestamp"
      [] ~HasKeywords(post) -> "keywords"
      [] HasIgnoreKeywords(post) -> "ignore"
      [] ~MeetsScore(post) -> "score"
      [] ~MeetsLength(post) -> "length"
      [] OTHER -> "none"

\* The reply checks without the length check of line 352.
CommentPassesScoreOnly(comment) == comment.score >= MIN_COMMENT_SCORE

\* The reply checks (lines 350-353).
CommentPasses(comment) ==
    /\ comment.score >= MIN_COMMENT_SCORE
    /\ Len(comment.body) >= MIN_COMMENT_LENGTH

\* ------------------------------------------------------------ the items

\* validate_post_data (63-65).
RequiredFields == {"type", "id", "subreddit", "created_utc", "score"}
ValidatePostData(data) == RequiredFields \subseteq DOMAIN data

\* generate_content_hash (53-54): a digest stands for the text it is taken of.
GenerateContentHash(content) == <<"md5", content>>

\* post_data (323-334) after sanitize_post_data (67-74).
PostData(post, sub_name) ==
    [type |-> "post", id |-> post.id,
     title |-> Take(post.title, TITLE_CAP),
     selftext |-> Take(post.selftext, SELFTEXT_CAP),
     subreddit |-> sub_name, created_utc |-> post.created_utc,
     score |-> post.score, num_comments |-> Len(post.comments),
     content_hash |-> GenerateContentHash(post.title \o post.selftext)]

\* comment_data (355-365) after sanitize_post_data.
CommentData(comment, post, sub_name) ==
    [type |-> "comment", id |-> comment.id, post_id |-> post.id,
     body |-> Take(comment.body, BODY_CAP),
     subreddit |-> sub_name, created_utc |-> comment.created_utc,
     score |-> comment.score,
     content_hash |-> GenerateContentHash(comment.body)]

\* The items the reply loop (348-374) appends for a post, in order, when the
\* replies at the positions `faulty` raise.
RECURSIVE CommentItems(_, _, _, _)
CommentItems(ids, at, faulty, ctx) ==
    IF ids = <<>> THEN <<>>
    ELSE LET comment == Comments[Head(ids)]
             data == CommentData(comment, ctx.post, ctx.sub_name)
             rest == CommentItems(Tail(ids), at + 1, faulty, ctx)
         IN  IF at \notin faulty /\ CommentPasses(comment) /\ ValidatePostData(data)
             THEN <<data>> \o rest
             ELSE rest

\* ------------------------------------------------- the relevance service

\* A response text is a sequence of tokens, each with the characters it is
\* written with: punctuation, white space, a quoted string (v is what stands
\* between the quotes), null, or a bare word.
Tok(t, v) == [t |-> t, v |-> v]
LBrace == Tok("{", <<"{">>)
RBrace == Tok("}", <<"}">>)
Colon == Tok(":", <<":">>)
Ws == Tok("ws", <<" ">>)
Null == Tok("null", <<"n", "u", "l", "l">>)
Quoted(v) == Tok("str", v)
Word(v) == Tok("word", v)

Str_decision == <<"d", "e", "c", "i", "s", "i", "o", "n">>
Str_answer == <<"a", "n", "s", "w", "e", "r">>

\* The characters of a text.
RECURSIVE Flatten(_)
Flatten(toks) ==
    IF toks = <<>> THEN <<>>
    ELSE LET h == Head(toks)
         IN  (IF h.t = "str" THEN <<"\"">> \o h.v \o <<"\"">> ELSE h.v)
                 \o Flatten(Tail(toks))

\* str.strip(): white space at both ends removed.
RECURSIVE StripLeft(_)
StripLeft(toks) ==
    IF toks # <<>> /\ Head(toks).t = "ws" THEN StripLeft(Tail(toks)) ELSE toks

RECURSIVE StripRight(_)
StripRight(toks) ==
    IF toks # <<>> /\ toks[Len(toks)].t = "ws"
    THEN StripRight(SubSeq(toks, 1, Len(toks) - 1))
    ELSE toks

Strip(toks) == StripRight(StripLeft(toks))

\* json.loads on a text: an object of at most one member, a string, or a
\* JSONDecodeError.  White space between tokens does not count.
JsonLoads(toks) ==
    LET sig == SelectSeq(toks, LAMBDA k : k.t # "ws")
    IN  CASE Len(sig) = 5 /\ sig[1].t = "{" /\ sig[2].t = "str" /\ sig[3].t = ":"
                /\ sig[4].t \in {"str", "null"} /\ sig[5].t = "}"
               -> [kind |-> "dict", key |-> sig[2].v, value |-> sig[4]]
          [] Len(sig) = 2 /\ sig[1].t = "{" /\ sig[2].t = "}"
               -> [kind |-> "dict", key |-> <<>>, value |-> Null]
          [] Len(sig) = 1 /\ sig[1].t = "str"
               -> [kind |-> "str", key |-> <<>>, value |-> sig[1]]
          [] OTHER -> [kind |-> "JSONDecodeError", key |-> <<>>, value |-> Null]

JsonDecision(decision) == <<LBrace, Quoted(Str_decision), Colon, Ws, Quoted(decision), RBrace>>

\* What invoke_model can do: answer with a body, whose content is a list of
\* texts, or raise an error with a message, given by the phrases in it.
Answer(texts) == [raised |-> FALSE, content |-> texts, msg |-> {}]
Raise(phrases) == [raised |-> TRUE, content |-> <<>>, msg |-> phrases]

Responses ==
    [relevant |-> Answer(<<JsonDecision(Str_RELEVANT)>>),
     irrelevant |-> Answer(<<JsonDecision(Str_IRRELEVANT)>>),
     lower_case |-> Answer(<<JsonDecision(Lower(Str_RELEVANT))>>),
     padded |-> Answer(<< <<Ws>> \o JsonDecision(Str_IRRELEVANT) \o <<Ws>> >>),
     embedded |-> Answer(<< <<Word(Str_answer), Ws>> \o JsonDecision(Str_IRRELEVANT) >>),
     free_text |-> Answer(<< <<Word(Lower(Str_RELEVANT))>> >>),
     free_no |-> Answer(<< <<Word(<<"n", "o">>)>> >>),
     other_key |-> Answer(<< <<LBrace, Quoted(Str_answer), Colon, Quoted(Str_RELEVANT), RBrace>> >>),
     null_decision |-> Answer(<< <<LBrace, Quoted(Str_decision), Colon, Null, RBrace>> >>),
     json_string |-> Answer(<< <<Quoted(Str_RELEVANT)>> >>),
     no_content |-> Answer(<<>>),
     throttling |-> Raise({"ThrottlingException"}),
     too_many |-> Raise({"Too many requests"}),
     timeout |-> Raise({"Read timeout on endpoint URL"}),
     access_denied |-> Raise({"AccessDeniedException", "You don't have access to the model"}),
     validation |-> Raise({"ValidationException"})]

\* Lines 197-212 with every error failing open.
OnErrorOpen(msg) == TRUE

\* The except branch of is_post_relevant_by_ai (197-212).
OnError(msg) ==
    CASE "You don't have access to the model" \in msg -> FALSE
      [] "ThrottlingException" \in msg \/ "Too many requests" \in msg -> TRUE
      [] "ValidationException" \in msg -> FALSE
      [] OTHER -> TRUE

\* What is_post_relevant_by_ai returns for what invoke_model did (175-212).
\* decision_json.get(...).upper() raises AttributeError when the parsed
\* value is no object or the decision no string; that lands in the except
\* branch like any other error.
Interpret(response) ==
    IF response.raised THEN OnError(response.msg)
    ELSE IF Len(response.content) > 0
    THEN LET content == response.content[1]
             decision_json == JsonLoads(Strip(content))
         IN  CASE decision_json.kind = "JSONDecodeError"
                    -> Contains(Upper(Flatten(content)), Str_RELEVANT)
               [] decision_json.kind = "dict" /\ decision_json.key # Str_decision
                    -> Upper(<<>>) = Str_RELEVANT
               [] decision_json.kind = "dict" /\ decision_json.value.t = "str"
                    -> Upper(decision_json.value.v) = Str_RELEVANT
               [] OTHER -> OnError({"AttributeError"})
    ELSE FALSE

\* ------------------------------------------------------ the statistics

\* The counters of a community's scan (264-269), in the order of the stages
\* that count them.
Counters ==
    <<"posts_examined", "posts_after_timestamp", "posts_with_keywords",
      "posts_meeting_score", "posts_meeting_length", "posts_ai_relevant">>

\* The counters as line 264-269 set them, for every community.
NoStats ==
    [s \in 1..Len(SUBREDDITS) |-> [c \in {Counters[i] : i \in 1..Len(Counters)} |-> 0]]

\* The first d counters.
UpTo(d) == {Counters[i] : i \in 1..d}

\* The counters of community s after each counter of `names` went up by one.
Counted(st, s, names) ==
    [st EXCEPT ![s] = [c \in DOMAIN @ |-> IF c \in names THEN @[c] + 1 ELSE @[c]]]

\* How many counters a post that the stage `stage` rejects has gone past
\* (273, 279, 291, 303, 309).
Depth(stage) ==
    CASE stage = "timestamp" -> 1
      [] stage = "keywords" -> 2
      [] stage \in {"ignore", "score"} -> 3
      [] stage = "length" -> 4
      [] OTHER -> 5

\* ---------------------------------------------------------------- state

\* How many invocations of lambda_handler a behaviour holds.
MaxRuns == 2

\* How many faults of its surroundings a behaviour holds: a failing call of
\* Secrets Manager, boto3, SSM, Reddit or S3.  The attempts of one wrapped
\* call that fail one after the other are one fault.
MaxFaults == 1

VARIABLES
    feed,                   \* the source snapshot: community -> post ids
    enable_ai,              \* ENABLE_AI_RELEVANCE_CHECK (line 30)
    secret_name,            \* REDDIT_SECRET_NAME of the environment, or None
    ssm,                    \* the parameter store: name -> parameter
    s3,                     \* the bucket: key -> body
    now,                    \* the clock, in ticks
    reddit,                 \* global (line 32)
    bedrock_runtime,        \* global (line 14)
    last_bedrock_call_time, \* global (line 15)
    pc,                     \* where lambda_handler stands
    runs,                   \* invocations begun
    last_timestamp,         \* local of lambda_handler (line 240)
    newest_timestamp,       \* local (line 242)
    processed_data,         \* local (line 241)
    sub_i,                  \* the community being scanned (line 258)
    post_i,                 \* the post the listing yields next (line 271)
    retry_cfg,              \* the arguments of the decorator that is running
    attempt,                \* retry_with_backoff's loop variable (line 39)
    slept,                  \* the delays the running wrapper has slept
    response,               \* what invoke_model did in the call that just ended
    ai_relevant,            \* local (line 312)
    result,                 \* what the last invocation returned
    invoked,                \* the posts sent to invoke_model in this invocation
    acquired,               \* when each call passed the rate limiter
    wm_start,               \* the parameter store as the invocation found it
    written,                \* the posts of every batch put so far
    faults,                 \* the faults injected so far
    log,                    \* the store calls of the invocation that returned
    examined,               \* the posts the invocation's loop has taken up
    caught,                 \* the fault the last step caught, if any
    stub,                   \* the relevance service, when it is a fixed stub
    prev,                   \* how the invocation ended that is run again
    stats,                  \* the counters of 264-269, community by community
    other                   \* an invocation in another process, if any

env == <<feed, enable_ai, secret_name>>
stores == <<ssm, s3>>
clock == <<now, last_bedrock_call_time, acquired>>
globals == <<reddit, bedrock_runtime>>
position == <<pc, sub_i, post_i>>
locals == <<last_timestamp, newest_timestamp, processed_data>>
wrapper == <<retry_cfg, attempt, slept>>
ai == <<response, ai_relevant, invoked>>
history == <<runs, wm_start, written, prev>>
trace == <<log, examined, stats>>
service == <<stub, other>>
vars == <<env, stores, clock, globals, position, locals, wrapper, ai, result,
          history, faults, trace, caught, service>>

\* The clock of a process when it starts, long after the epoch.
StartTime == 10

\* The globals and locals of a process that has just been loaded.
Loaded ==
    /\ now = StartTime
    /\ reddit = None
    /\ last_bedrock_call_time = 0
    /\ acquired = <<>>
    /\ runs = 0
    /\ last_timestamp = None
    /\ newest_timestamp = 0
    /\ processed_data = <<>>
    /\ attempt = 0
    /\ slept = <<>>
    /\ response = None
    /\ ai_relevant = FALSE
    /\ result = None
    /\ invoked = {}
    /\ written = {}
    /\ faults = 0
    /\ log = <<>>
    /\ examined = {}
    /\ stats = NoStats
    /\ caught = <<>>
    /\ prev = None
    /\ other = None

\* The state of a process that has just been loaded, with nothing stored.
Fresh ==
    /\ ssm = <<>>
    /\ s3 = <<>>
    /\ wm_start = <<>>
    /\ Loaded

Init ==
    /\ \/ secret_name = Some("reddit/credentials") /\ feed \in Snapshots
                /\ enable_ai \in BOOLEAN
       \/ secret_name = None /\ feed = Pool /\ enable_ai = TRUE
    /\ bedrock_runtime = None
    /\ pc = "idle"
    /\ sub_i = 1
    /\ post_i = 1
    /\ retry_cfg = RETRY_SSM
    /\ stub = None
    /\ Fresh

\* ------------------------------------------------------------- the steps

sub_name == SUBREDDITS[sub_i]

\* subreddit.new(limit=POST_LIMIT) (line 262): the newest posts, at most
\* POST_LIMIT of them.
posts == Take(feed[sub_name], POST_LIMIT)
post == Posts[posts[post_i]]

\* One more fault of the surroundings, or none.
Fault == faults < MaxFaults /\ faults' = faults + 1
NoFault == faults' = faults

\* A call of a store returned.
Log(op) == log' = Append(log, op)

\* The except clause a step ended in, and the reply that raised: that of
\* initialize_bedrock_client (94), of a community (397), of a post (382), of
\* a post's replies (376) or of one reply (373).
Caught(kind, k) == caught' = <<kind, k>>
NoneCaught == caught' = <<>>

\* `return {...}` of lambda_handler.
Return(statusCode, body) ==
    /\ result' = Some([statusCode |-> statusCode, body |-> body])
    /\ pc' = "idle"
    /\ UNCHANGED <<sub_i, post_i>>

\* time.sleep(delay) in the wrapper (line 46).
Sleep(delay) ==
    /\ now' = now + delay
    /\ slept' = Append(slept, delay)

\* A failed attempt of a function that is not wrapped: it raises at once.
FailedOnce(failure) ==
    /\ Fault
    /\ Return(500, failure)
    /\ UNCHANGED <<now, attempt, slept, retry_cfg>>

\* A failed attempt of a wrapped function (42-48): sleep and go round again,
\* or raise, which lambda_handler turns into `failure`.
Failed(failure) ==
    /\ IF attempt = 0 THEN Fault ELSE NoFault
    /\ IF RetryAgain(retry_cfg.max_retries, attempt)
       THEN /\ Sleep(RetryDelay(retry_cfg.base_delay, retry_cfg.max_delay, attempt))
            /\ attempt' = attempt + 1
            /\ UNCHANGED <<position, result>>
       ELSE /\ Return(500, failure)
            /\ UNCHANGED <<now, attempt, slept>>
    /\ UNCHANGED retry_cfg

\* Lines 215-238 and the call at line 240.
Invoke ==
    /\ pc = "idle"
    /\ runs < MaxRuns
    /\ runs' = runs + 1
    /\ wm_start' = ssm
    /\ log' = <<>>
    /\ examined' = {}
    /\ stats' = NoStats
    /\ invoked' = {}
    /\ last_timestamp' = None
    /\ newest_timestamp' = 0
    /\ processed_data' = <<>>
    /\ retry_cfg' = RETRY_SSM
    /\ attempt' = 0
    /\ slept' = <<>>
    /\ response' = None
    /\ ai_relevant' = FALSE
    /\ \/ /\ reddit = None
          /\ secret_name = None
          /\ Return(500, "Error: REDDIT_SECRET_NAME environment variable not set.")
          /\ NoFault
          /\ NoneCaught
          /\ UNCHANGED globals
       \/ /\ reddit = None
          /\ secret_name # None
          /\ Return(500, "Error: get_secret_value")
          /\ Fault
          /\ NoneCaught
          /\ UNCHANGED globals
       \/ /\ reddit # None \/ secret_name # None
          /\ reddit' = Some("praw.Reddit")
          /\ \/ /\ bedrock_runtime' = Some("bedrock-runtime")
                /\ NoFault
                /\ NoneCaught
             \/ /\ bedrock_runtime = None
                /\ bedrock_runtime' = None
                /\ Fault
                /\ Caught("client", 0)
          /\ pc' = "get_last_timestamp"
          /\ UNCHANGED <<sub_i, post_i, result>>
    /\ UNCHANGED <<env, stores, clock, written, prev, service>>

\* The except of line 397 ending the loop over the communities.
NextSubNone ==
    /\ post_i' = 1
    /\ sub_i' = sub_i
    /\ pc' = "persist"

\* The loop over the communities moves on (line 258), or ends (line 401).
NextSub ==
    /\ post_i' = 1
    /\ IF sub_i < Len(SUBREDDITS)
       THEN sub_i' = sub_i + 1 /\ pc' = "post"
       ELSE sub_i' = sub_i /\ pc' = "persist"

\* The end of a community's scan without the test of line 394.
EndSubUncapped(data) == NextSub

\* The end of a community's scan (385-395) with `data` collected.
EndSub(data) ==
    IF Len(data) >= POST_LIMIT
    THEN pc' = "persist" /\ UNCHANGED <<sub_i, post_i>>
    ELSE NextSub

\* The except of line 382 leaving the loop over the posts.
NextPostBreak ==
    /\ post_i' = Len(posts) + 1
    /\ pc' = "post"
    /\ UNCHANGED sub_i

\* `continue` in the loop over the posts.
NextPost ==
    /\ post_i' = post_i + 1
    /\ pc' = "post"
    /\ UNCHANGED sub_i

\* get_last_timestamp (99-106) once, and lines 241-242 when it returns.
GetLastTimestamp ==
    /\ pc = "get_last_timestamp"
    /\ \/ /\ last_timestamp' = Watermark(ssm)
          /\ processed_data' = <<>>
          /\ newest_timestamp' = 0
          /\ sub_i' = 1
          /\ post_i' = 1
          /\ pc' = "post"
          /\ NoFault
          /\ Log("get_parameter")
          /\ UNCHANGED <<now, wrapper, result>>
       \/ /\ Failed("Error: get_parameter")
          /\ UNCHANGED <<locals, log>>
    /\ NoneCaught
    /\ UNCHANGED <<env, stores, last_bedrock_call_time, acquired, globals, ai,
                   history, examined, stats, service>>

\* A fault while the listing is fetched or iterated (261-271) lands in the
\* except of line 397: on to the next community.
ListingFault ==
    /\ pc = "post"
    /\ Fault
    /\ NextSub
    /\ Caught("listing", 0)
    /\ UNCHANGED <<env, stores, clock, globals, locals, wrapper, ai, result,
                   history, trace, service>>

\* The listing is exhausted (385-395).
EndOfListing ==
    /\ pc = "post"
    /\ post_i > Len(posts)
    /\ EndSub(processed_data)
    /\ NoneCaught
    /\ UNCHANGED <<env, stores, clock, globals, locals, wrapper, ai, result,
                   history, faults, trace, service>>

\* Lines 323-380 with the post and its replies appended only when none of
\* them raised.
AcceptAllOrNothing ==
    \E fetched \in BOOLEAN :
    \E faulty \in {{}} \cup {{k} : k \in 1..Len(post.comments)} :
        LET ctx == [post |-> post, sub_name |-> sub_name]
            post_data == PostData(post, sub_name)
            data == IF fetched /\ faulty = {}
                    THEN processed_data \o <<post_data>>
                            \o CommentItems(post.comments, 1, faulty, ctx)
                    ELSE processed_data
        IN  /\ ValidatePostData(post_data)
            /\ fetched \/ faulty = {}
            /\ IF fetched /\ faulty = {} THEN NoFault ELSE Fault
            /\ IF ~fetched THEN Caught("replies", 0)
               ELSE IF faulty # {}
               THEN \E k \in faulty : Caught("reply", k)
               ELSE NoneCaught
            /\ processed_data' = data
            /\ IF Len(data) >= POST_LIMIT THEN EndSub(data) ELSE NextPost

\* Lines 323-380: the post is appended, then its replies that pass; a fault
\* in fetching the replies (344-346) leaves the post alone, a fault in a
\* reply (373) drops that reply: at most one reply of a post raises.  Then the
\* cap check of line 379.
Accept ==
    \E fetched \in BOOLEAN :
    \E faulty \in {{}} \cup {{k} : k \in 1..Len(post.comments)} :
        LET ctx == [post |-> post, sub_name |-> sub_name]
            post_data == PostData(post, sub_name)
            replies == IF fetched THEN CommentItems(post.comments, 1, faulty, ctx)
                       ELSE <<>>
            data == processed_data \o <<post_data>> \o replies
        IN  /\ ValidatePostData(post_data)
            /\ fetched \/ faulty = {}
            /\ IF fetched /\ faulty = {} THEN NoFault ELSE Fault
            /\ IF ~fetched THEN Caught("replies", 0)
               ELSE IF faulty # {}
               THEN \E k \in faulty : Caught("reply", k)
               ELSE NoneCaught
            /\ processed_data' = data
            /\ IF Len(data) >= POST_LIMIT THEN EndSub(data) ELSE NextPost

\* How many counters a post has gone past when lines 271-321 are through
\* with it: posts_ai_relevant is counted at 321 when the relevance check is
\* off, and not at 318-319 when it is on without a client.
Reach(last, a_post) ==
    IF RejectedAt(last, a_post) = "none" /\ ~enable_ai THEN 6
    ELSE Depth(RejectedAt(last, a_post))

\* One post through stages 1 to 5 (271-309), and stage 6 when the relevance
\* check is off or has no client (318-321).  A fault in the post's fields
\* before line 275 or after line 280 is the except of line 382, with the
\* counters gone up that stand before the line that raised.
ExaminePost ==
    /\ pc = "post"
    /\ post_i <= Len(posts)
    /\ examined' = examined \cup {post.id}
    /\ \/ /\ Fault
          /\ Caught("post", 0)
          /\ stats' = Counted(stats, sub_i, UpTo(1))
          /\ NextPost
          /\ UNCHANGED <<newest_timestamp, processed_data, wrapper>>
       \/ /\ Fault
          /\ Caught("post", 1)
          /\ ~IsOld(last_timestamp, post)
          /\ newest_timestamp' = Max(newest_timestamp, post.created_utc)
          /\ \E d \in 2..Reach(last_timestamp, post) :
                stats' = Counted(stats, sub_i, UpTo(d))
          /\ NextPost
          /\ UNCHANGED <<processed_data, wrapper>>
       \/ /\ RejectedAt(last_timestamp, post) = "timestamp"
          /\ NoFault
          /\ NoneCaught
          /\ stats' = Counted(stats, sub_i, UpTo(1))
          /\ NextPost
          /\ UNCHANGED <<newest_timestamp, processed_data, wrapper>>
       \/ /\ RejectedAt(last_timestamp, post) \in {"keywords", "ignore", "score", "length"}
          /\ NoFault
          /\ newest_timestamp' = Max(newest_timestamp, post.created_utc)
          /\ NoneCaught
          /\ stats' = Counted(stats, sub_i, UpTo(Depth(RejectedAt(last_timestamp, post))))
          /\ NextPost
          /\ UNCHANGED <<processed_data, wrapper>>
       \/ /\ RejectedAt(last_timestamp, post) = "none"
          /\ newest_timestamp' = Max(newest_timestamp, post.created_utc)
          /\ stats' = Counted(stats, sub_i, UpTo(Reach(last_timestamp, post)))
          /\ IF enable_ai /\ bedrock_runtime # None
             THEN /\ pc' = "is_post_relevant_by_ai"
                  /\ retry_cfg' = RETRY_AI
                  /\ attempt' = 0
                  /\ slept' = <<>>
                  /\ NoFault
                  /\ NoneCaught
                  /\ UNCHANGED <<sub_i, post_i, processed_data>>
             ELSE Accept /\ UNCHANGED wrapper
    /\ UNCHANGED <<env, stores, clock, globals, last_timestamp, ai, result,
                   history, log, service>>

\* time.sleep(sleep_time) and time.time() in the rate limiter (132-134).
Acquire ==
    /\ now' = now + SleepTime(now, last_bedrock_call_time)
    /\ last_bedrock_call_time' = now'
    /\ acquired' = Append(acquired, now')

\* is_post_relevant_by_ai up to the rate limiter (121-134).
AiAcquire ==
    /\ pc = "is_post_relevant_by_ai"
    /\ IF Len(post.title \o post.selftext) < AI_MIN_TEXT_LENGTH
       THEN /\ ai_relevant' = FALSE
            /\ pc' = "ai_returned"
            /\ UNCHANGED clock
       ELSE /\ Acquire
            /\ pc' = "invoke_model"
            /\ UNCHANGED ai_relevant
    /\ NoneCaught
    /\ UNCHANGED <<env, stores, globals, sub_i, post_i, locals, wrapper,
                   response, invoked, result, history, faults, trace, service>>

\* What invoke_model is taken to do: called from a run of lambda_handler, one
\* of the things that differ for the run (an answer that accepts, one that
\* rejects, an error); called by itself, anything it can do.
Answers ==
    IF runs = 0 THEN DOMAIN Responses ELSE {"relevant", "irrelevant", "throttling"}

\* What invoke_model does for the post `id`: with a stub, what the stub
\* holds for the post.
AnswersUnstubbed(id) == Answers

AnswersFor(id) == IF stub = None THEN Answers ELSE {stub[1][id]}

\* invoke_model and what is made of it (175-212).  Every error is caught at
\* line 197, so the wrapper of line 117 sees the function return.
AiInvoke ==
    /\ pc = "invoke_model"
    /\ \E r \in AnswersFor(post.id) :
        /\ response' = Some(r)
        /\ ai_relevant' = Interpret(Responses[r])
    /\ invoked' = invoked \cup {post.id}
    /\ pc' = "ai_returned"
    /\ NoneCaught
    /\ UNCHANGED <<env, stores, clock, globals, sub_i, post_i, locals, wrapper,
                   result, history, faults, trace, service>>

\* Lines 313-317, and the post's acceptance.
AiReturned ==
    /\ pc = "ai_returned"
    /\ response' = None
    /\ IF ai_relevant
       THEN /\ stats' = Counted(stats, sub_i, {"posts_ai_relevant"})
            /\ Accept
       ELSE NextPost /\ NoFault /\ NoneCaught /\ UNCHANGED <<processed_data, stats>>
    /\ UNCHANGED <<env, stores, clock, globals, last_timestamp,
                   newest_timestamp, wrapper, ai_relevant, invoked, result,
                   history, log, examined, service>>

\* The object key of lines 407-409: the second the clock shows.
S3Key == now \div 2

\* The body of lines 412-420 counting the posts only.
BatchOfPosts ==
    [metadata |-> [timestamp |-> S3Key,
                   total_items |-> Len(SelectSeq(processed_data,
                                       LAMBDA item : item.type = "post")),
                   processed_subreddits |-> SUBREDDITS, keywords |-> KEYWORDS],
     data |-> processed_data]

\* The body of lines 412-420.
Batch ==
    [metadata |-> [timestamp |-> S3Key, total_items |-> Len(processed_data),
                   processed_subreddits |-> SUBREDDITS, keywords |-> KEYWORDS],
     data |-> processed_data]

\* put_object on a bucket.
PutObject(bucket, key, body) ==
    [k \in DOMAIN bucket \cup {key} |-> IF k = key THEN body ELSE bucket[k]]

\* put_parameter with Overwrite=True (110-115).
PutParameter(store, name, value) ==
    [k \in DOMAIN store \cup {name} |->
        IF k = name THEN [Value |-> value, Type |-> "String"] ELSE store[k]]

\* Line 401 taking a single item for none.
NoDataUnderTwo(data) == Len(data) < 2

\* Line 401 without the test.
NoDataNever(data) == FALSE

\* `if not processed_data` (line 401).
NoData(data) == data = <<>>

\* The except of lines 440-442 letting the invocation go on to line 429.
UploadErrorSwallowed(e) ==
    pc' = "set_last_timestamp" /\ UNCHANGED <<sub_i, post_i, result>>

\* Lines 440-442 answering as a success.
UploadErrorAsSuccess(e) == Return(200, e)

\* The except of lines 440-442.
UploadError(e) == Return(500, e)

PostsOf(data) == {data[i].id : i \in {j \in 1..Len(data) : data[j].type = "post"}}

\* Lines 401-427 and the test of line 429.
Persist ==
    /\ pc = "persist"
    /\ \/ /\ NoData(processed_data)
          /\ Return(200, "No new data.")
          /\ NoFault
          /\ UNCHANGED <<s3, written, log>>
       \/ /\ ~NoData(processed_data)
          /\ UploadError("Upload error: put_object")
          /\ Fault
          /\ UNCHANGED <<s3, written, log>>
       \/ /\ ~NoData(processed_data)
          /\ NoFault
          /\ Log("put_object")
          /\ s3' = PutObject(s3, S3Key, Batch)
          /\ written' = written \cup PostsOf(processed_data)
          /\ IF newest_timestamp > 0
             THEN pc' = "set_last_timestamp" /\ UNCHANGED <<sub_i, post_i, result>>
             ELSE Return(200, "Successfully processed")
    /\ retry_cfg' = RETRY_SSM
    /\ attempt' = 0
    /\ slept' = <<>>
    /\ NoneCaught
    /\ UNCHANGED <<env, ssm, clock, globals, locals, ai, runs, wm_start, prev,
                   examined, stats, service>>

\* set_last_timestamp (108-115) once, and lines 434-442.
SetLastTimestamp ==
    /\ pc = "set_last_timestamp"
    /\ \/ /\ ssm' = PutParameter(ssm, SSM_PARAMETER_NAME, StrOf(newest_timestamp))
          /\ Return(200, "Successfully processed")
          /\ NoFault
          /\ Log("put_parameter")
          /\ UNCHANGED <<now, wrapper>>
       \/ /\ Failed("Upload error: put_parameter")
          /\ UNCHANGED <<ssm, log>>
    /\ NoneCaught
    /\ UNCHANGED <<env, s3, last_bedrock_call_time, acquired, globals, locals,
                   ai, history, examined, stats, service>>

Next ==
    \/ Invoke
    \/ GetLastTimestamp
    \/ ListingFault
    \/ EndOfListing
    \/ ExaminePost
    \/ AiAcquire
    \/ AiInvoke
    \/ AiReturned
    \/ Persist
    \/ SetLastTimestamp

Spec == Init /\ [][Next]_vars

\* ------------------------------------------- retry_with_backoff by itself

\* The largest max_retries, base_delay and max_delay a wrapper is built with.
MaxRetries == 3
MaxBaseDelay == 2
MaxDelayCap == 8

RetryConfigs ==
    [max_retries : 0..MaxRetries, base_delay : 1..MaxBaseDelay,
     max_delay : 1..MaxDelayCap]

\* A wrapper built with any arguments is called once.
InitRetry ==
    /\ feed = Pool
    /\ enable_ai = TRUE
    /\ secret_name = Some("reddit/credentials")
    /\ bedrock_runtime = None
    /\ pc = "wrapper"
    /\ sub_i = 1
    /\ post_i = 1
    /\ retry_cfg \in RetryConfigs
    /\ stub = None
    /\ Fresh

\* Attempt number `attempt` of func returns, and the wrapper returns what it
\* returned (line 41).
WrappedReturns ==
    /\ pc = "wrapper"
    /\ Return(200, <<"returned", attempt>>)
    /\ UNCHANGED <<env, stores, clock, globals, locals, wrapper, ai, history,
                   faults, trace, caught, service>>

\* Attempt number `attempt` of func raises (42-48).
WrappedRaises ==
    /\ pc = "wrapper"
    /\ Failed(<<"raised", attempt>>)
    /\ UNCHANGED <<env, stores, last_bedrock_call_time, acquired, globals,
                   locals, ai, history, trace, caught, service>>

NextRetry == WrappedReturns \/ WrappedRaises

SpecRetry == InitRetry /\ [][NextRetry]_vars

\* --------------------------------------- is_post_relevant_by_ai by itself

\* How far the clock runs and how many calls pass the rate limiter.
MaxClock == 15
MaxCalls == 3

LimiterFeed == [stocks |-> <<"s2", "s3">>, investing |-> <<"i1">>]

\* A process with a client calls is_post_relevant_by_ai on a post.
InitLimiter ==
    /\ feed = LimiterFeed
    /\ enable_ai = TRUE
    /\ secret_name = Some("reddit/credentials")
    /\ bedrock_runtime = Some("bedrock-runtime")
    /\ pc = "is_post_relevant_by_ai"
    /\ sub_i \in 1..Len(SUBREDDITS)
    /\ post_i \in 1..Len(Take(LimiterFeed[SUBREDDITS[sub_i]], POST_LIMIT))
    /\ retry_cfg = RETRY_AI
    /\ stub = None
    /\ Fresh

\* Time passes.
Tick ==
    /\ now < MaxClock
    /\ now' = now + 1
    /\ UNCHANGED <<env, stores, last_bedrock_call_time, acquired, globals,
                   position, locals, wrapper, ai, result, history, faults,
                   trace, caught, service>>

\* The next call of is_post_relevant_by_ai (line 312), on any post.
CallAgain ==
    /\ pc = "ai_returned"
    /\ Len(acquired) < MaxCalls
    /\ pc' = "is_post_relevant_by_ai"
    /\ sub_i' \in 1..Len(SUBREDDITS)
    /\ post_i' \in 1..Len(Take(feed[SUBREDDITS[sub_i']], POST_LIMIT))
    /\ response' = None
    /\ UNCHANGED <<env, stores, clock, globals, locals, wrapper, ai_relevant,
                   invoked, result, history, faults, trace, caught, service>>

NextLimiter == Tick \/ AiAcquire \/ AiInvoke \/ CallAgain

SpecLimiter == InitLimiter /\ [][NextLimiter]_vars

\* ------------------------- a process whose environment changes under it

\* What the communities list while the environment changes.
EnvFeeds ==
    {[stocks |-> <<"s2", "s3">>, investing |-> <<"i1", "i2">>],
     [stocks |-> <<"s1">>, investing |-> <<"i1">>]}

\* A process loaded with REDDIT_SECRET_NAME set.
InitEnv ==
    /\ secret_name = Some("reddit/credentials")
    /\ feed \in EnvFeeds
    /\ enable_ai \in BOOLEAN
    /\ bedrock_runtime = None
    /\ pc = "idle"
    /\ sub_i = 1
    /\ post_i = 1
    /\ retry_cfg = RETRY_SSM
    /\ stub = None
    /\ Fresh

\* Between two invocations REDDIT_SECRET_NAME is removed from os.environ,
\* which get_reddit_credentials reads at each call (line 77).
Unset ==
    /\ pc = "idle"
    /\ secret_name # None
    /\ secret_name' = None
    /\ UNCHANGED <<feed, enable_ai, stores, clock, globals, position, locals,
                   wrapper, ai, result, history, faults, trace, caught, service>>

NextEnv ==
    \/ Unset
    \/ Invoke
    \/ GetLastTimestamp
    \/ ListingFault
    \/ EndOfListing
    \/ ExaminePost
    \/ AiAcquire
    \/ AiInvoke
    \/ AiReturned
    \/ Persist
    \/ SetLastTimestamp

SpecEnv == InitEnv /\ [][NextEnv]_vars

\* ------------------------------- an invocation run again on what it found

\* Three posts: one without a keyword, one older than the other two, one
\* that passes the keyword, score and length stages.
ScenarioFeed == [stocks |-> <<"s1", "s3">>, investing |-> <<"i1">>]

\* What the communities list while an invocation is run again.
RescanFeeds ==
    {ScenarioFeed,
     [stocks |-> <<"s2", "s3">>, investing |-> <<"i1", "i2">>],
     [stocks |-> <<"s1", "s2">>, investing |-> <<"i1">>],
     [stocks |-> <<"s3", "s4">>, investing |-> <<"i2", "i3">>]}

\* The stubs of the relevance service: a fixed answer for each post that the
\* cascade can send it.
StubbedPosts == {"s2", "i1"}
Stubs ==
    {[id \in PostIds |-> IF id \in StubbedPosts THEN f[id] ELSE "irrelevant"] :
        f \in [StubbedPosts -> {"relevant", "irrelevant"}]}

\* The parameter stores a process can find: with no watermark, or with one.
SeededStores ==
    {<<>>} \cup {PutParameter(<<>>, SSM_PARAMETER_NAME, StrOf(w)) : w \in 1..3}

\* A process with a stubbed relevance service and any watermark in the store.
InitRescan ==
    /\ secret_name = Some("reddit/credentials")
    /\ feed \in RescanFeeds
    /\ enable_ai \in BOOLEAN
    /\ bedrock_runtime = None
    /\ pc = "idle"
    /\ sub_i = 1
    /\ post_i = 1
    /\ retry_cfg = RETRY_SSM
    /\ stub \in {Some(f) : f \in Stubs}
    /\ enable_ai \/ \A id \in StubbedPosts : stub[1][id] = "irrelevant"
    /\ ssm \in SeededStores
    /\ s3 = <<>>
    /\ wm_start = ssm
    /\ Loaded

\* The invocation that has ended is to be run again on what it found: how
\* it ended is kept, and the parameter store is put back as it found it.
Rewind ==
    /\ pc = "idle"
    /\ runs > 0
    /\ prev = None
    /\ prev' = Some([runs |-> runs, wm_start |-> wm_start, store |-> ssm,
                     data |-> processed_data, newest |-> newest_timestamp,
                     examined |-> examined, invoked |-> invoked,
                     result |-> result])
    /\ ssm' = wm_start
    /\ UNCHANGED <<env, s3, clock, globals, position, locals, wrapper, ai,
                   result, runs, wm_start, written, faults, trace, caught,
                   service>>

NextRescan ==
    \/ Rewind
    \/ Invoke
    \/ GetLastTimestamp
    \/ ListingFault
    \/ EndOfListing
    \/ ExaminePost
    \/ AiAcquire
    \/ AiInvoke
    \/ AiReturned
    \/ Persist
    \/ SetLastTimestamp

SpecRescan == InitRescan /\ [][NextRescan]_vars

\* --------------------------------------- two invocations that overlap

\* What a scan (258-399) without a fault collects from community number s,
\* post number k on, with the watermark `last` and `acc` collected so far:
\* the items, the newest timestamp seen and the posts sent to the relevance
\* service, which answers as the stub does.
RECURSIVE ScanFrom(_, _, _, _)
ScanFrom(last, s, k, acc) ==
    IF s > Len(SUBREDDITS) THEN acc
    ELSE LET name == SUBREDDITS[s]
             listed == Take(feed[name], POST_LIMIT)
         IN  IF k > Len(listed) THEN ScanFrom(last, s + 1, 1, acc)
             ELSE LET p == Posts[listed[k]]
                      stage == RejectedAt(last, p)
                      seen == [acc EXCEPT !.newest = Max(@, p.created_utc)]
                      long == Len(p.title \o p.selftext) >= AI_MIN_TEXT_LENGTH
                      asked == IF enable_ai /\ long
                               THEN [seen EXCEPT !.invoked = @ \cup {p.id}]
                               ELSE seen
                      relevant == ~enable_ai
                                    \/ (long /\ Interpret(Responses[stub[1][p.id]]))
                      ctx == [post |-> p, sub_name |-> name]
                      data == acc.data \o <<PostData(p, name)>>
                                \o CommentItems(p.comments, 1, {}, ctx)
                  IN  IF stage = "timestamp" THEN ScanFrom(last, s, k + 1, acc)
                      ELSE IF stage # "none" THEN ScanFrom(last, s, k + 1, seen)
                      ELSE IF ~relevant THEN ScanFrom(last, s, k + 1, asked)
                      ELSE IF Len(data) >= POST_LIMIT
                      THEN [asked EXCEPT !.data = data]
                      ELSE ScanFrom(last, s, k + 1, [asked EXCEPT !.data = data])

\* A whole scan with the watermark `last`.
Scan(last) == ScanFrom(last, 1, 1, [data |-> <<>>, newest |-> 0, invoked |-> {}])

\* The body of lines 412-420 for the items `data`.
BatchOf(data) ==
    [metadata |-> [timestamp |-> S3Key, total_items |-> Len(data),
                   processed_subreddits |-> SUBREDDITS, keywords |-> KEYWORDS],
     data |-> data]

\* What the communities list while two invocations overlap.
OverlapFeeds ==
    {[stocks |-> <<"s2">>, investing |-> <<"i1">>],
     [stocks |-> <<"s3">>, investing |-> <<"i1", "i2">>]}

\* A stub that finds every post relevant.
AllRelevant == [id \in PostIds |-> "relevant"]

\* A process is loaded while the platform may start another one.
InitOverlap ==
    /\ secret_name = Some("reddit/credentials")
    /\ feed \in OverlapFeeds
    /\ enable_ai \in BOOLEAN
    /\ bedrock_runtime = None
    /\ pc = "idle"
    /\ sub_i = 1
    /\ post_i = 1
    /\ retry_cfg = RETRY_SSM
    /\ stub = Some(AllRelevant)
    /\ Fresh

\* The invocation in the other process reads the watermark (line 240).
OtherReads ==
    /\ other = None
    /\ other' = Some([pc |-> "scan", start |-> ssm, newest |-> 0,
                      invoked |-> {}])
    /\ UNCHANGED <<env, stores, clock, globals, position, locals, wrapper, ai,
                   result, history, faults, trace, caught, stub>>

\* The invocation in the other process scans, with no fault, and puts its
\* batch if it has one (258-427).
OtherPuts ==
    /\ other # None
    /\ other[1].pc = "scan"
    /\ LET run == Scan(Watermark(other[1].start))
       IN  /\ other' = Some([other[1] EXCEPT
                    !.pc = IF run.data # <<>> /\ run.newest > 0
                           THEN "set" ELSE "done",
                    !.newest = run.newest,
                    !.invoked = run.invoked])
           /\ IF run.data = <<>>
              THEN UNCHANGED <<s3, written>>
              ELSE /\ s3' = PutObject(s3, S3Key, BatchOf(run.data))
                   /\ written' = written \cup PostsOf(run.data)
    /\ UNCHANGED <<env, ssm, clock, globals, position, locals, wrapper, ai,
                   result, runs, wm_start, prev, faults, trace, caught, stub>>

\* The invocation in the other process writes the watermark (429-432).
OtherSets ==
    /\ other # None
    /\ other[1].pc = "set"
    /\ ssm' = PutParameter(ssm, SSM_PARAMETER_NAME, StrOf(other[1].newest))
    /\ other' = Some([other[1] EXCEPT !.pc = "done"])
    /\ UNCHANGED <<env, s3, clock, globals, position, locals, wrapper, ai,
                   result, history, faults, trace, caught, stub>>

NextOverlap ==
    \/ OtherReads
    \/ OtherPuts
    \/ OtherSets
    \/ Invoke
    \/ GetLastTimestamp
    \/ ListingFault
    \/ EndOfListing
    \/ ExaminePost
    \/ AiAcquire
    \/ AiInvoke
    \/ AiReturned
    \/ Persist
    \/ SetLastTimestamp

SpecOverlap == InitOverlap /\ [][NextOverlap]_vars

\* ------------------------------------------------------------ properties

MaxOf(S) == CHOOSE x \in S : \A y \in S : x >= y

RECURSIVE Sum(_)
Sum(seq) == IF seq = <<>> THEN 0 ELSE Head(seq) + Sum(Tail(seq))

Outcome(statusCode, body) == Some([statusCode |-> statusCode, body |-> body])

\* The posts among the items the invocation accepted.
AcceptedPosts ==
    {processed_data[i] : i \in {j \in 1..Len(processed_data) :
                                    processed_data[j].type = "post"}}

\* The phrases the except branch of is_post_relevant_by_ai looks for.
ModelAccessDenied(msg) == "You don't have access to the model" \in msg
Throttled(msg) == "ThrottlingException" \in msg \/ "Too many requests" \in msg
Invalid(msg) == "ValidationException" \in msg

\* C1: the watermark in the parameter store never moves back: whatever an
\* invocation does (success, no data, failure), once the store held a
\* watermark when the invocation began it holds one that is greater or equal.
C1_WatermarkMonotone ==
    Watermark(wm_start) # None =>
        /\ Watermark(ssm) # None
        /\ Watermark(ssm)[1] >= Watermark(wm_start)[1]

\* A second invocation has moved the watermark forward.
C1_Witness ==
    /\ pc = "idle"
    /\ runs = 2
    /\ Watermark(wm_start) # None
    /\ Watermark(ssm)[1] > Watermark(wm_start)[1]

\* C2: at-least-once ingestion: after every invocation, every post of the
\* source that passes the stages after the watermark and is in no batch
\* written so far was created at or after the persisted watermark, so that a
\* later invocation still examines it.  With the relevance check off, stage 6
\* passes every post.
C2_AtLeastOnce ==
    (pc = "idle" /\ runs > 0 /\ ~enable_ai /\ Watermark(ssm) # None) =>
        \A s \in DOMAIN feed : \A k \in 1..Len(feed[s]) :
            LET p == Posts[feed[s][k]]
            IN  (RejectedAt(None, p) = "none" /\ p.id \notin written)
                    => p.created_utc >= Watermark(ssm)[1]

\* C3: an invocation that writes a batch and advances the watermark persists
\* the greatest created_utc among the posts it accepted.
C3_WatermarkIsNewestAccepted ==
    (pc = "idle" /\ result = Outcome(200, "Successfully processed")
        /\ newest_timestamp > 0) =>
        Watermark(ssm) = Some(MaxOf({p.created_utc : p \in AcceptedPosts}))

\* C4: when put_object fails, the invocation ends there with statusCode 500
\* and the parameter store is as the invocation found it.
C4_PutFailureKeepsWatermark ==
    [][(pc = "persist" /\ processed_data # <<>> /\ faults' # faults) =>
          /\ pc' = "idle"
          /\ result' # None
          /\ result'[1].statusCode = 500
          /\ s3' = s3
          /\ ssm' = ssm
          /\ ssm' = wm_start']_vars

\* A second invocation failed to put its batch, with a watermark in the store.
C4_Witness ==
    /\ pc = "idle"
    /\ runs = 2
    /\ result = Outcome(500, "Upload error: put_object")
    /\ processed_data # <<>>
    /\ newest_timestamp > 0
    /\ Watermark(ssm) # None

\* C5: an invocation that reaches the end of its scan with no item accepted
\* writes neither an object nor the watermark, and returns statusCode 200 with
\* the body "No new data.".
C5_NoDataNoWrites ==
    [][(pc = "persist" /\ processed_data = <<>>) =>
          /\ pc' = "idle"
          /\ result' = Outcome(200, "No new data.")
          /\ s3' = s3
          /\ ssm' = ssm
          /\ ssm' = wm_start']_vars

\* A second invocation saw posts past the watermark and accepted none.
C5_Witness ==
    /\ pc = "idle"
    /\ runs = 2
    /\ result = Outcome(200, "No new data.")
    /\ newest_timestamp > 0
    /\ Watermark(ssm) # None
    /\ newest_timestamp > Watermark(ssm)[1]

\* What the keyword, ignore-keyword, score and length stages find in each
\* post.
Stages ==
    [id \in PostIds |->
        [has_keywords |-> HasKeywords(Posts[id]),
         has_ignore_keywords |-> HasIgnoreKeywords(Posts[id]),
         meets_score |-> MeetsScore(Posts[id]),
         meets_length |-> MeetsLength(Posts[id])]]

\* C6: invoke_model is called only for posts, never for replies, and only
\* for posts that passed the watermark, keyword, ignore-keyword, score and
\* length stages.
C6_ShortCircuit ==
    \A id \in invoked :
        /\ id \in PostIds
        /\ id \notin DOMAIN Comments
        /\ ~(Truthy(last_timestamp) /\ Posts[id].created_utc < last_timestamp[1])
        /\ Stages[id].has_keywords
        /\ ~Stages[id].has_ignore_keywords
        /\ Stages[id].meets_score
        /\ Stages[id].meets_length

\* A scan went through a post without a keyword and a post with too low a
\* score, and sent the relevance service the one other post.
C6_Witness ==
    /\ pc = "persist"
    /\ enable_ai
    /\ feed.stocks = <<"s1">>
    /\ feed.investing = <<"i1", "i2">>
    /\ examined = {"s1", "i1", "i2"}
    /\ invoked = {"i1"}
    /\ Len(processed_data) = 1

\* C7: is_post_relevant_by_ai returns True when invoke_model raises a
\* throttling error or an error it does not recognise, False when it raises
\* a model-access-denied or a validation error, and False when it answers
\* with a text that parses to {"decision": "IRRELEVANT"}.
C7_FailOpenFailClosed ==
    (pc = "ai_returned" /\ response # None) =>
        LET r == Responses[response[1]]
            parsed == JsonLoads(Strip(r.content[1]))
        IN  /\ (r.raised /\ Throttled(r.msg) /\ ~ModelAccessDenied(r.msg))
                    => ai_relevant
            /\ (r.raised /\ ~Throttled(r.msg) /\ ~ModelAccessDenied(r.msg)
                    /\ ~Invalid(r.msg)) => ai_relevant
            /\ (r.raised /\ ModelAccessDenied(r.msg)) => ~ai_relevant
            /\ (r.raised /\ Invalid(r.msg) /\ ~Throttled(r.msg)) => ~ai_relevant
            /\ (~r.raised /\ Len(r.content) > 0 /\ parsed.kind = "dict"
                    /\ parsed.key = Str_decision
                    /\ parsed.value = Quoted(Str_IRRELEVANT)) => ~ai_relevant

\* invoke_model raised a model-access-denied error and the post was refused.
C7_Witness ==
    /\ pc = "ai_returned"
    /\ response = Some("access_denied")
    /\ ~ai_relevant

\* C8: when invoke_model fails with a transient error (throttling, a
\* timeout), is_post_relevant_by_ai returns only after the wrapper of line
\* 117 has made its 3 retries, each after its backoff delay.
C8_TransientRetried ==
    (pc = "ai_returned" /\ response # None /\ Responses[response[1]].raised
        /\ ~ModelAccessDenied(Responses[response[1]].msg)
        /\ ~Invalid(Responses[response[1]].msg)) =>
        /\ attempt = RETRY_AI.max_retries
        /\ Len(slept) = RETRY_AI.max_retries

\* The delay the wrapper is to sleep after failed attempt k.
ExpectedDelay(k) ==
    LET d == retry_cfg.base_delay * Pow2(k)
    IN  IF d > retry_cfg.max_delay THEN retry_cfg.max_delay ELSE d

\* C9: retry_with_backoff makes at most max_retries + 1 attempts; it returns
\* what the first attempt that succeeds returned and attempts no more; after
\* failed attempt k < max_retries it sleeps exactly
\* min(base_delay * 2^k, max_delay); when every attempt failed it raises the
\* failure of the last one, with no sleep after it.
C9_RetryPolicy ==
    /\ attempt <= retry_cfg.max_retries
    /\ Len(slept) = attempt
    /\ \A k \in 1..Len(slept) : slept[k] = ExpectedDelay(k - 1)
    /\ now = StartTime + Sum(slept)
    /\ result # None =>
          /\ pc = "idle"
          /\ \/ result = Outcome(200, <<"returned", attempt>>)
             \/ /\ result = Outcome(500, <<"raised", retry_cfg.max_retries>>)
                /\ attempt = retry_cfg.max_retries

\* Four attempts failed, the delay before the last one cut to max_delay.
C9_Witness ==
    /\ pc = "idle"
    /\ result # None
    /\ result[1].statusCode = 500
    /\ retry_cfg.max_retries = 3
    /\ Len(slept) = 3
    /\ slept[1] < slept[2]
    /\ slept[3] = retry_cfg.max_delay
    /\ retry_cfg.base_delay * 4 > retry_cfg.max_delay

\* C10: the calls that pass the rate limiter do so at least
\* BEDROCK_CALL_INTERVAL apart, so that N of them span at least
\* (N - 1) * BEDROCK_CALL_INTERVAL; last_bedrock_call_time is the time the
\* last call passed the limiter, however long invoke_model took afterwards.
C10_RateLimited ==
    /\ \A i \in 2..Len(acquired) :
          acquired[i] - acquired[i - 1] >= BEDROCK_CALL_INTERVAL
    /\ acquired # <<>> =>
          /\ acquired[Len(acquired)] - acquired[1]
                >= (Len(acquired) - 1) * BEDROCK_CALL_INTERVAL
          /\ last_bedrock_call_time = acquired[Len(acquired)]

\* Three calls, the second held back by the limiter, the third returned
\* after invoke_model took its time.
C10_Witness ==
    /\ pc = "ai_returned"
    /\ response # None
    /\ Len(acquired) = 3
    /\ acquired[2] - acquired[1] = BEDROCK_CALL_INTERVAL
    /\ now > last_bedrock_call_time

\* The store call `op` of this invocation has returned.
Called(op) == \E i \in 1..Len(log) : log[i] = op

\* How many times the store call `op` of this invocation has returned.
Calls(op) == Cardinality({i \in 1..Len(log) : log[i] = op})

\* C11: when the parameter store held a watermark W as the invocation began,
\* no item of the batch the invocation writes has a created_utc less than or
\* equal to W.
C11_NothingAtOrBeforeWatermark ==
    (Watermark(wm_start) # None /\ Called("put_object")) =>
        \A i \in 1..Len(processed_data) :
            processed_data[i].created_utc > Watermark(wm_start)[1]

\* The store calls of an invocation, in the order of lines 240, 422 and 432.
StoreCalls == <<"get_parameter", "put_object", "put_parameter">>

\* The positions of the loops over the communities and their posts (258-399).
ScanPcs == {"post", "is_post_relevant_by_ai", "invoke_model", "ai_returned"}

\* C12: in every invocation get_parameter returns the watermark once, before
\* any community is scanned; put_parameter returns at most once, and only
\* after put_object has returned in the same invocation (read, scan, persist,
\* advance, done, in that order); as long as put_parameter has not returned,
\* at whatever point the invocation fails or is abandoned, the parameter
\* store is as the invocation found it.
C12_WatermarkProtocol ==
    /\ Len(log) <= Len(StoreCalls)
    /\ \A i \in 1..Len(log) : log[i] = StoreCalls[i]
    /\ (pc \in ScanPcs \/ pc = "persist") => log = <<"get_parameter">>
    /\ pc = "set_last_timestamp" => log = <<"get_parameter", "put_object">>
    /\ (examined # {} \/ processed_data # <<>>) => Calls("get_parameter") = 1
    /\ ~Called("put_parameter") => ssm = wm_start

\* A second invocation read the watermark, scanned, put its batch and moved
\* the watermark.
C12_Witness ==
    /\ pc = "idle"
    /\ runs = 2
    /\ log = StoreCalls
    /\ examined # {}
    /\ wm_start # <<>>
    /\ ssm # wm_start

\* C13: every invocation of lambda_handler ends with a returned value, one
\* of three: statusCode 200 for a success with items, only after put_object
\* returned; statusCode 200 with "No new data.", only when no item was
\* accepted and neither store was written; or statusCode 500 with an error
\* text.
C13_ThreeOutcomes ==
    (pc = "idle" /\ runs > 0) =>
        /\ result # None
        /\ result[1].statusCode \in {200, 500}
        /\ result[1].statusCode = 200 =>
              \/ /\ result = Outcome(200, "Successfully processed")
                 /\ processed_data # <<>>
                 /\ Called("put_object")
              \/ /\ result = Outcome(200, "No new data.")
                 /\ processed_data = <<>>
                 /\ ~Called("put_object")
                 /\ ~Called("put_parameter")
                 /\ ssm = wm_start

\* The second invocation of a process that has met a fault and advanced no
\* watermark before returned a success with items.
C13_Witness ==
    /\ pc = "idle"
    /\ runs = 2
    /\ faults = 1
    /\ wm_start = <<>>
    /\ result = Outcome(200, "Successfully processed")
    /\ Called("put_object")

\* C14: a fault raised while a community's listing is obtained or iterated
\* ends the scan of that community only: the items accepted before it are
\* kept, nothing is returned or written at that step, and the invocation
\* goes on with the next community, or to the persist step after the last
\* one, where a put_object that does not fail writes the items kept.
C14_CommunityFaultIsolated ==
    [][/\ caught' = <<"listing", 0>> =>
            /\ pc = "post"
            /\ processed_data' = processed_data
            /\ newest_timestamp' = newest_timestamp
            /\ result' = result
            /\ s3' = s3
            /\ ssm' = ssm
            /\ IF sub_i < Len(SUBREDDITS)
               THEN pc' = "post" /\ sub_i' = sub_i + 1 /\ post_i' = 1
               ELSE pc' = "persist"
       /\ (pc = "persist" /\ processed_data # <<>> /\ faults' = faults) =>
            /\ S3Key \in DOMAIN s3'
            /\ s3'[S3Key].data = processed_data]_vars

\* One item was accepted from r/stocks, the listing of r/investing raised
\* with a post in it, and the invocation wrote its batch of one item.
C14_Witness ==
    /\ pc = "idle"
    /\ result = Outcome(200, "Successfully processed")
    /\ feed.stocks = <<"s3">>
    /\ feed.investing = <<"i1">>
    /\ examined = {"s3"}
    /\ Len(processed_data) = 1
    /\ Called("put_object")

\* The ids of the items of `data`.
Ids(data) == {data[i].id : i \in 1..Len(data)}

\* `data` begins with the items of `head`.
StartsWith(data, head) ==
    Len(head) <= Len(data) /\ SubSeq(data, 1, Len(head)) = head

\* C15: a fault raised while a post is processed skips that post only, and
\* a fault raised while a reply is processed skips that reply only: the items
\* accepted before stay in processed_data, the post of a faulty reply and its
\* other replies that pass are appended, nothing is returned or written at
\* that step, and the loop goes on with the next post of the community unless
\* the cap is reached.
C15_ItemFaultIsolated ==
    [][(caught' # <<>> /\ caught'[1] \in {"post", "replies", "reply"}) =>
        /\ result' = result
        /\ s3' = s3
        /\ ssm' = ssm
        /\ StartsWith(processed_data', processed_data)
        /\ caught'[1] = "post" =>
              /\ processed_data' = processed_data
              /\ pc' = "post" /\ sub_i' = sub_i /\ post_i' = post_i + 1
        /\ caught'[1] = "replies" =>
              /\ processed_data' = Append(processed_data, PostData(post, sub_name))
        /\ caught'[1] = "reply" =>
              /\ Ids(processed_data') = Ids(processed_data) \cup {post.id} \cup
                    {post.comments[k] : k \in {j \in 1..Len(post.comments) :
                        j # caught'[2] /\ CommentPasses(Comments[post.comments[j]])}}
              /\ Len(processed_data') = Len(processed_data) +
                    Cardinality(Ids(processed_data') \ Ids(processed_data))
        /\ caught'[1] \in {"replies", "reply"} =>
              IF Len(processed_data') >= POST_LIMIT
              THEN pc' = "persist"
              ELSE pc' = "post" /\ sub_i' = sub_i /\ post_i' = post_i + 1]_vars

\* With an item of r/stocks accepted, the first post of r/investing raised
\* and the scan is at the second.
C15_Witness ==
    /\ caught = <<"post", 0>>
    /\ pc = "post"
    /\ sub_i = 2
    /\ post_i = 2
    /\ post_i <= Len(posts)
    /\ Len(processed_data) = 1
    /\ result = None

\* The first reply of a post raised; the post and its later reply that
\* passes are in processed_data.
C15_ReplySkipped ==
    /\ caught = <<"reply", 1>>
    /\ Ids(processed_data) = {"s2", "c4"}

\* C16: once processed_data holds POST_LIMIT items or more, no further post
\* is examined and no further community is scanned: the invocation is at the
\* persist step, or past it.
C16_ItemCap ==
    Len(processed_data) >= POST_LIMIT =>
        /\ pc \in {"persist", "set_last_timestamp", "idle"}
        /\ \A s \in 1..Len(SUBREDDITS) : \A k \in 1..Len(feed[SUBREDDITS[s]]) :
              (s > sub_i \/ (s = sub_i /\ k > post_i))
                  => feed[SUBREDDITS[s]][k] \notin examined

\* The first post of r/stocks and its replies reached the cap with a second
\* post listed after it and posts listed in r/investing.
C16_Witness ==
    /\ pc = "persist"
    /\ Len(processed_data) >= POST_LIMIT
    /\ sub_i = 1
    /\ post_i = 1
    /\ Len(posts) = 2
    /\ feed.investing # <<>>
    /\ examined = {"s2"}

\* C17: when the parameter is absent and no store error occurs,
\* get_last_timestamp returns None at its first attempt, with no sleep, and
\* the invocation rejects no post at the watermark stage; a store error is
\* retried at most 2 times, and when the last attempt fails the invocation
\* returns statusCode 500 with no post examined, no item accepted and
\* neither store written.
C17_WatermarkRead ==
    /\ pc = "get_last_timestamp" =>
          /\ attempt <= 2
          /\ Len(slept) = attempt
    /\ (pc = "post" /\ examined = {} /\ sub_i = 1 /\ faults = 0) =>
          /\ attempt = 0
          /\ slept = <<>>
    /\ (pc \in ScanPcs /\ wm_start = <<>>) =>
          /\ last_timestamp = None
          /\ \A id \in PostIds : ~IsOld(last_timestamp, Posts[id])
    /\ (pc = "idle" /\ result = Outcome(500, "Error: get_parameter")) =>
          /\ attempt = 2
          /\ Len(slept) = 2
          /\ examined = {}
          /\ invoked = {}
          /\ processed_data = <<>>
          /\ log = <<>>
          /\ ssm = wm_start

\* get_parameter failed three times in a second invocation, with a watermark
\* in the store.
C17_Witness ==
    /\ pc = "idle"
    /\ runs = 2
    /\ wm_start # <<>>
    /\ result = Outcome(500, "Error: get_parameter")
    /\ Len(slept) = 2

\* With no parameter in the store the scan has begun with no watermark.
C17_AbsentIsNone ==
    /\ pc = "post"
    /\ wm_start = <<>>
    /\ last_timestamp = None
    /\ log = <<"get_parameter">>
    /\ attempt = 0

\* C18: an invocation that begins with REDDIT_SECRET_NAME not set, the first
\* of its process or a later one, ends at once with statusCode 500: it reads
\* no watermark, examines no post, calls no relevance service and writes
\* neither store.
C18_ConfigErrorFatal ==
    [][(secret_name = None /\ runs' = runs + 1) =>
          /\ pc' = "idle"
          /\ result' = Outcome(500, "Error: REDDIT_SECRET_NAME environment variable not set.")
          /\ log' = <<>>
          /\ examined' = {}
          /\ invoked' = {}
          /\ s3' = s3
          /\ ssm' = ssm]_vars

PassesRelevance(id) ==
    (enable_ai /\ bedrock_runtime # None) =>
        /\ Len(Posts[id].title \o Posts[id].selftext) >= AI_MIN_TEXT_LENGTH
        /\ Interpret(Responses[stub[1][id]])

\* Whether the cascade accepts the post `id` in this invocation.
Accepts(id) ==
    RejectedAt(last_timestamp, Posts[id]) = "none" /\ PassesRelevance(id)

\* The replies of the post `id` that pass the reply checks.
PassingReplies(id) ==
    {Posts[id].comments[k] : k \in {j \in 1..Len(Posts[id].comments) :
        CommentPasses(Comments[Posts[id].comments[j]])}}

\* C20: every batch in the bucket has metadata.total_items equal to the
\* length of its data and holds no item twice; the batch an invocation
\* writes holds the items it accepted: no post that a stage rejects, no reply
\* that fails the reply checks or belongs to a post not in the batch, and,
\* when no fault occurred, every examined post the cascade accepts with every
\* reply of it that passes.  With watermark 2, the relevance check off and
\* three posts listed (s3 older than the watermark, s1 newer without a
\* keyword, i1 newer and passing keyword, score and length) the batch holds
\* exactly i1 and total_items is 1.
C20_BatchHoldsAccepted ==
    /\ \A k \in DOMAIN s3 :
          /\ s3[k].metadata.total_items = Len(s3[k].data)
          /\ Cardinality(Ids(s3[k].data)) = Len(s3[k].data)
    /\ Called("put_object") =>
          /\ \E k \in DOMAIN s3 : s3[k].data = processed_data
          /\ \A i \in 1..Len(processed_data) :
                LET item == processed_data[i]
                IN  IF item.type = "post"
                    THEN item.id \in examined /\ Accepts(item.id)
                    ELSE /\ item.post_id \in PostsOf(processed_data)
                         /\ item.id \in PassingReplies(item.post_id)
          /\ faults = 0 =>
                \A id \in examined :
                    Accepts(id) =>
                        /\ id \in Ids(processed_data)
                        /\ PassingReplies(id) \subseteq Ids(processed_data)
    /\ (pc = "idle" /\ runs > 0 /\ faults = 0 /\ feed = ScenarioFeed
            /\ ~enable_ai /\ Watermark(wm_start) = Some(2)) =>
          /\ processed_data = <<PostData(Posts["i1"], "investing")>>
          /\ \E k \in DOMAIN s3 :
                /\ s3[k].data = processed_data
                /\ s3[k].metadata.total_items = 1

\* The scenario has run: the three posts were examined and the batch holds
\* the third.
C20_Witness ==
    /\ pc = "idle"
    /\ faults = 0
    /\ feed = ScenarioFeed
    /\ ~enable_ai
    /\ Watermark(wm_start) = Some(2)
    /\ examined = {"s1", "s3", "i1"}
    /\ Ids(processed_data) = {"i1"}
    /\ Called("put_object")
    /\ \E k \in DOMAIN s3 : s3[k].metadata.total_items = 1

\* C21: an invocation puts at most one object, and a put_object never
\* replaces an object an earlier invocation put: the objects in the bucket
\* stay as they were written.
C21_BatchesAppendOnly ==
    [][/\ Cardinality({i \in 1..Len(log') : log'[i] = "put_object"}) <= 1
       /\ \A k \in DOMAIN s3 : k \in DOMAIN s3' /\ s3'[k] = s3[k]]_vars

\* C22: overlapping invocations are not safe.  set_last_timestamp writes
\* the writer's newest timestamp whatever the parameter store holds, and the
\* persisted watermark goes down exactly by such a write of an invocation
\* that read the store before the other invocation wrote the larger value.
C22_OverlapRegresses ==
    [][(Watermark(ssm) # None /\ Watermark(ssm') # None
            /\ Watermark(ssm')[1] < Watermark(ssm)[1]) =>
          \/ /\ pc = "set_last_timestamp"
             /\ Watermark(ssm') = Some(newest_timestamp)
             /\ wm_start # ssm
             /\ other # None
             /\ other[1].pc = "done"
             /\ Watermark(ssm) = Some(other[1].newest)
          \/ /\ other # None
             /\ other[1].pc = "set"
             /\ Watermark(ssm') = Some(other[1].newest)
             /\ other[1].start # ssm
             /\ runs > 0]_vars

\* Two invocations overlapped: both sent the same post to the relevance
\* service, this one persisted its watermark first, and the other one then
\* overwrote it with a smaller one.
C22_Witness ==
    /\ pc = "idle"
    /\ Called("put_parameter")
    /\ other # None
    /\ other[1].pc = "done"
    /\ other[1].start = wm_start
    /\ Watermark(ssm) = Some(other[1].newest)
    /\ Watermark(ssm)[1] < newest_timestamp
    /\ invoked \cap other[1].invoked # {}

\* C23: the posts in processed_data are not older than the watermark and
\* pass the keyword, ignore-keyword, score and length stages; and a post that
\* passed those stages is refused by is_post_relevant_by_ai only on what the
\* relevance service answered, or on an error of it that is definitive
\* (model access denied, validation).
C23_CascadeConjunction ==
    /\ \A i \in 1..Len(processed_data) :
          processed_data[i].type = "post" =>
              LET id == processed_data[i].id
              IN  /\ ~IsOld(last_timestamp, Posts[id])
                  /\ Stages[id].has_keywords
                  /\ ~Stages[id].has_ignore_keywords
                  /\ Stages[id].meets_score
                  /\ Stages[id].meets_length
    /\ (pc = "ai_returned" /\ ~ai_relevant) =>
          /\ response # None
          /\ Responses[response[1]].raised =>
                \/ ModelAccessDenied(Responses[response[1]].msg)
                \/ Invalid(Responses[response[1]].msg)

\* C24: replies are appended only in the step that appends their post, a
\* post the cascade accepts, and right after it, in the order listed; a
\* listed reply is appended if and only if its score is at least
\* MIN_COMMENT_SCORE and its body has at least MIN_COMMENT_LENGTH characters,
\* unless the listing raised or that reply raised; keywords, ignore terms
\* and the relevance service play no part, and no reply's inclusion depends
\* on another's.
C24_ReplySubCascade ==
    [][(StartsWith(processed_data', processed_data)
            /\ Len(processed_data') > Len(processed_data)) =>
        LET added == SubSeq(processed_data', Len(processed_data) + 1, Len(processed_data'))
            ids == post.comments
            meets(k) == /\ Comments[ids[k]].score >= MIN_COMMENT_SCORE
                        /\ Len(Comments[ids[k]].body) >= MIN_COMMENT_LENGTH
            raised(k) == caught' = <<"replies", 0>> \/ caught' = <<"reply", k>>
            kept == {k \in 1..Len(ids) : meets(k) /\ ~raised(k)}
        IN  /\ pc \in {"post", "ai_returned"}
            /\ RejectedAt(last_timestamp, post) = "none"
            /\ added[1] = PostData(post, sub_name)
            /\ Len(added) = 1 + Cardinality(kept)
            /\ invoked' = invoked
            /\ \A j \in 2..Len(added) :
                  /\ added[j].type = "comment"
                  /\ added[j].post_id = post.id
                  /\ \E k \in kept :
                        /\ added[j].id = ids[k]
                        /\ added[j].body = Comments[ids[k]].body
                        /\ added[j].score = Comments[ids[k]].score
                        /\ j - 1 = Cardinality({m \in kept : m <= k})]_vars

\* Post s2 was accepted with its four replies listed: c1 and c4 are in the
\* batch after it, although neither names a keyword; c2 (score 4) and c3
\* (two characters) between them are not.
C24_Witness ==
    /\ pc = "idle"
    /\ faults = 0
    /\ Called("put_object")
    /\ Len(processed_data) = 3
    /\ processed_data[1] = PostData(Posts["s2"], "stocks")
    /\ processed_data[2].id = "c1"
    /\ processed_data[3].id = "c4"
    /\ \A k \in 1..Len(KEYWORDS) :
          ~Contains(Lower(Comments["c1"].body), Lower(KEYWORDS[k]))

\* C25: when invoke_model answered, a response without content is rejected;
\* a first text that parses is accepted exactly when the parsed object's
\* decision member is RELEVANT in any case; a first text that does not parse
\* is accepted exactly when it holds RELEVANT in any case.
C25_ParseThenFallback ==
    (pc = "ai_returned" /\ response # None /\ ~Responses[response[1]].raised) =>
        LET texts == Responses[response[1]].content
            parsed == JsonLoads(Strip(texts[1]))
        IN  IF Len(texts) = 0 THEN ~ai_relevant
            ELSE IF parsed.kind = "JSONDecodeError"
            THEN ai_relevant <=> Contains(Upper(Flatten(texts[1])), Str_RELEVANT)
            ELSE ai_relevant <=>
                    /\ parsed.kind = "dict"
                    /\ parsed.key = Str_decision
                    /\ parsed.value.t = "str"
                    /\ Upper(parsed.value.v) = Str_RELEVANT

\* C26: a response that invoke_model returned and whose first text states
\* the decision IRRELEVANT, as the bare object or as that object with free
\* text or white space around it, never has the post accepted.
C26_IrrelevantNeverAccepted ==
    (pc = "ai_returned" /\ response # None
        /\ response[1] \in {"irrelevant", "padded", "embedded"}) => ~ai_relevant

\* How an invocation ends when set_last_timestamp raised.
WatermarkWriteFailed == Outcome(500, "Upload error: put_parameter")

\* C27: when put_object returned and put_parameter then failed on each of
\* its three attempts, the invocation returns statusCode 500 after two
\* sleeps, the batch it put is in the bucket and the parameter store is as
\* the invocation found it; the next invocation, on the same listings and
\* answers and without a fault, reads the same watermark, collects the same
\* items again and puts them in a second object, the first still in place.
C27_WatermarkWriteFails ==
    /\ (pc = "idle" /\ result = WatermarkWriteFailed) =>
          /\ attempt = 2
          /\ Len(slept) = 2
          /\ Calls("put_object") = 1
          /\ ~Called("put_parameter")
          /\ ssm = wm_start
          /\ processed_data # <<>>
          /\ \E k \in DOMAIN s3 : s3[k].data = processed_data
    /\ (prev # None /\ prev[1].result = WatermarkWriteFailed) =>
          /\ prev[1].store = prev[1].wm_start
          /\ \E k \in DOMAIN s3 : s3[k].data = prev[1].data
          /\ (runs = prev[1].runs + 1 /\ faults = 1) =>
                /\ wm_start = prev[1].wm_start
                /\ pc \notin {"idle", "get_last_timestamp"} =>
                      last_timestamp = Watermark(prev[1].wm_start)
                /\ pc \in {"persist", "set_last_timestamp", "idle"} =>
                      /\ processed_data = prev[1].data
                      /\ examined = prev[1].examined
                /\ Called("put_object") =>
                      Cardinality({k \in DOMAIN s3 : s3[k].data = prev[1].data}) >= 2

\* The first invocation put its batch and failed to write the watermark; the
\* second has put the same items again and written the watermark.
C27_Witness ==
    /\ pc = "idle"
    /\ prev # None
    /\ prev[1].result = WatermarkWriteFailed
    /\ runs = prev[1].runs + 1
    /\ result = Outcome(200, "Successfully processed")
    /\ processed_data = prev[1].data
    /\ Cardinality({k \in DOMAIN s3 : s3[k].data = processed_data}) = 2
    /\ ssm # wm_start

\* C28: no batch in the bucket holds more items, posts and replies
\* together, than POST_LIMIT.
C28_BatchWithinCap ==
    \A k \in DOMAIN s3 :
        /\ Len(s3[k].data) <= POST_LIMIT
        /\ s3[k].metadata.total_items <= POST_LIMIT

\* The posts of community number s among the items of `data`.
PostsIn(data, s) ==
    Cardinality({i \in 1..Len(data) :
        data[i].type = "post" /\ data[i].subreddit = SUBREDDITS[s]})

\* C29: the counters of every community never increase along the stages:
\* posts_examined >= posts_after_timestamp >= posts_with_keywords >=
\* posts_meeting_score >= posts_meeting_length >= posts_ai_relevant; and when
\* the community's scan has ended, posts_ai_relevant is the number of its
\* posts in processed_data.
C29_CounterChain ==
    \A s \in 1..Len(SUBREDDITS) :
        /\ \A i \in 1..(Len(Counters) - 1) :
              stats[s][Counters[i]] >= stats[s][Counters[i + 1]]
        /\ (s < sub_i \/ pc \in {"persist", "set_last_timestamp", "idle"}) =>
              stats[s].posts_ai_relevant = PostsIn(processed_data, s)

\* C30: in every batch in the bucket, and in processed_data, a reply comes
\* after a post of the same batch whose id is the reply's post_id; and a
\* fault in fetching a post's replies, or in one reply, leaves the post in
\* processed_data where it was appended, after the items accepted before,
\* followed by the replies listed before the fault that pass.
C30_RepliesFollowTheirPost ==
    [][/\ \A data \in {s3'[k].data : k \in DOMAIN s3'} \cup {processed_data'} :
             \A i \in 1..Len(data) :
                 data[i].type = "comment" =>
                     \E j \in 1..(i - 1) :
                         data[j].type = "post" /\ data[j].id = data[i].post_id
       /\ (caught' # <<>> /\ caught'[1] \in {"replies", "reply"}) =>
             LET before == IF caught'[1] = "reply"
                           THEN SubSeq(post.comments, 1, caught'[2] - 1)
                           ELSE <<>>
                 kept == SelectSeq(before, LAMBDA c :
                             /\ Comments[c].score >= MIN_COMMENT_SCORE
                             /\ Len(Comments[c].body) >= MIN_COMMENT_LENGTH)
             IN  /\ Len(processed_data') >= Len(processed_data) + 1 + Len(kept)
                 /\ SubSeq(processed_data', 1, Len(processed_data)) = processed_data
                 /\ processed_data'[Len(processed_data) + 1] = PostData(post, sub_name)
                 /\ \A n \in 1..Len(kept) :
                       LET item == processed_data'[Len(processed_data) + 1 + n]
                       IN  /\ item.type = "comment"
                           /\ item.id = kept[n]
                           /\ item.post_id = post.id]_vars

\* The last of the four replies of s2 raised: the batch written holds s2 and
\* the reply c1 appended before it, and not c4.
C30_Witness ==
    /\ pc = "idle"
    /\ faults = 1
    /\ Called("put_object")
    /\ Len(processed_data) = 2
    /\ processed_data[1] = PostData(Posts["s2"], "stocks")
    /\ processed_data[2].id = "c1"
    /\ processed_data[2].post_id = "s2"
    /\ \E k \in DOMAIN s3 : s3[k].data = processed_data

====
